---- MODULE Spec2Model ----
(***************************************************************************)
(* The two emulator programs of the repository, src/shelly_emulator.py     *)
(* (aiohttp, a HomeWizardClient cache read by ShellyEmulator) and          *)
(* src/app/main.py (FastAPI, a module-level state dictionary), each with   *)
(* its poller task, its request handlers and its discovery tasks.          *)
(*                                                                         *)
(* Numbers are fixed point: a JSON number is the integer count of its      *)
(* thousandths (230 V is 230000).  A JSON value is a record [t, v] with    *)
(* t its type; strings are identified by a number, 0 being the empty one.  *)
(***************************************************************************)
EXTENDS Integers, Sequences, FiniteSets, TLC

VARIABLES
    prog,           \* which of the two programs this process runs
    poll_pc,        \* position of the poller task
    inflight,       \* upstream GET requests issued and not yet finished
    hw_cached,      \* HomeWizardClient._cached_data
    hw_last_fetch,  \* HomeWizardClient._last_fetch
    state,          \* the module-level state dictionary of app/main.py
    mdns,           \* outcome of the mDNS registration of startup_event
    coap_pc,        \* position of the coap_announce task
    now,            \* the clock (event-loop time)
    response,       \* the response sent by the step just taken, if it was a request
    first_static,   \* history: the first document /shelly and /settings returned,
                    \* and whether a reading was stored by then
    hist,           \* history: has a poll stored a reading; did the last poll fail
    sleep_s,        \* seconds of the asyncio.sleep the poller is in (0: in none)
    cleanup         \* how the cleanup hook ended: "none", "returned" or "raised"

vars == <<prog, poll_pc, inflight, hw_cached, hw_last_fetch, state, mdns, coap_pc,
          now, response, first_static, hist, sleep_s, cleanup>>

-----------------------------------------------------------------------------
(* Bounds of the model *)

MaxPowerUnits == 1  \* upstream powers are 0 and k * 690 W, k in 1..MaxPowerUnits
MaxTime == 1        \* the clock stops advancing here

-----------------------------------------------------------------------------
(* JSON values and the Python operations the programs apply to them *)

Unit == 1000

Num(n) == [t |-> "num", v |-> n]
Str(i) == [t |-> "str", v |-> i]
Null == [t |-> "null", v |-> 0]
Missing == [t |-> "missing", v |-> 0]

IsNum(j) == j.t = "num"

\* Python truth value of a JSON value: None, 0 and "" are false
Truthy(j) ==
    CASE j.t = "num" -> j.v # 0
      [] j.t = "str" -> j.v # 0
      [] OTHER -> FALSE

Fields == {"active_power_w", "active_current_a", "active_voltage_v", "active_tariff",
           "wifi_ssid", "wifi_strength", "total_power_import_kwh",
           "total_power_export_kwh", "total_gas_m3", "gas_timestamp"}

NoFields == [f \in Fields |-> Missing]

\* a parsed JSON body: None (JSON null), a non-empty array, or an object
PyNone == [kind |-> "null", f |-> NoFields]
JsonList == [kind |-> "list", f |-> NoFields]
JsonObject(fs) == [kind |-> "object", f |-> fs]
\* a body resp.json() cannot parse
Unparseable == [kind |-> "unparseable", f |-> NoFields]

\* Python truth value of a parsed body: None and {} are false
BodyTruthy(b) ==
    CASE b.kind = "list" -> TRUE
      [] b.kind = "object" -> \E f \in Fields : b.f[f] # Missing
      [] OTHER -> FALSE

\* dict.get(key, default)
Get(b, key, default) == IF b.f[key] = Missing THEN default ELSE b.f[key]

\* nearest integer to n / q, ties to the even one (Python's round)
RoundHalfEven(n, q) ==
    LET f == n \div q
        r == n % q
    IN  IF 2 * r < q THEN f
        ELSE IF 2 * r > q THEN f + 1
        ELSE IF f % 2 = 0 THEN f ELSE f + 1

\* round(x, 3) and round(x, 2) of a number held in thousandths
Round3(x) == RoundHalfEven(x, 1)
Round2(x) == RoundHalfEven(x, 10) * 10
\* round(x * 1.02, 2): x * 102 is the product in hundred-thousandths
RoundAprt(x) == RoundHalfEven(x * 102, 1000) * 10

\* int(x): truncation toward zero of n / q
Trunc(n, q) == IF n >= 0 THEN n \div q ELSE -((-n) \div q)

\* x / k for an integer k (exact on the powers the model feeds it)
Div(x, k) == x \div k

-----------------------------------------------------------------------------
(* What the upstream gateway can answer *)

PowerVals == {Missing, Null, Str(1), Num(0)}
             \cup {Num(k * 690 * Unit) : k \in 1..MaxPowerUnits}
CurrentVals == {Missing, Num(3 * Unit)}
VoltageVals == {Missing, Num(0)}
TariffVals == {Missing, Num(1 * Unit)}
SsidVals == {Missing, Str(2)}
StrengthVals == {Missing, Str(1), Num(0), Num(99 * Unit), Num(150 * Unit)}
\* the energy and gas counters, all absent or all present
CounterVals ==
    { [import |-> Missing, export |-> Missing, gas |-> Missing, gas_time |-> Missing],
      [import |-> Num(5 * Unit), export |-> Num(2 * Unit), gas |-> Num(7 * Unit),
       gas_time |-> Num(1 * Unit)] }

\* the objects, varying in the fields the program reads (and in one it does not)
EmulatorObjects ==
    { JsonObject([NoFields EXCEPT !["active_power_w"] = p, !["active_current_a"] = c,
                                  !["active_voltage_v"] = v, !["active_tariff"] = t]) :
        p \in PowerVals, c \in CurrentVals, v \in VoltageVals, t \in TariffVals }

MainObjects ==
    { JsonObject([NoFields EXCEPT !["wifi_ssid"] = s, !["wifi_strength"] = w,
                                  !["active_power_w"] = p,
                                  !["total_power_import_kwh"] = k.import,
                                  !["total_power_export_kwh"] = k.export,
                                  !["total_gas_m3"] = k.gas,
                                  !["gas_timestamp"] = k.gas_time]) :
        s \in SsidVals, w \in StrengthVals, p \in PowerVals, k \in CounterVals }

Bodies(p) ==
    {PyNone, JsonList, Unparseable}
    \cup (IF p = "emulator" THEN EmulatorObjects ELSE MainObjects)

Statuses == {200, 204, 500}

\* the per-phase paths a Gen1 client asks for
EmeterPaths == {"/emeter/0", "/emeter/1", "/emeter/2"}
Is2xx(s) == s >= 200 /\ s < 300

-----------------------------------------------------------------------------
(* src/shelly_emulator.py: ShellyEmulator, the presentation of the cache *)

\* the document a handler returns, or the failure the server turns into a 500
Returned(doc) == [raised |-> FALSE, doc |-> doc]
Raised == [raised |-> TRUE, doc |-> [error |-> "500 Internal Server Error"]]

_get_empty_status ==
    [id |-> 0, source |-> "init",
     a_current |-> 0, a_voltage |-> 0, a_act_power |-> 0,
     a_aprt_power |-> 0, a_pf |-> 0, a_freq |-> 50 * Unit,
     b_current |-> 0, b_voltage |-> 0, b_act_power |-> 0,
     b_aprt_power |-> 0, b_pf |-> 0, b_freq |-> 0,
     c_current |-> 0, c_voltage |-> 0, c_act_power |-> 0,
     c_aprt_power |-> 0, c_pf |-> 0, c_freq |-> 0,
     n_current |-> 0,
     total_current |-> 0, total_act_power |-> 0,
     total_aprt_power |-> 0,
     user_calibrated_phase |-> <<>>]

\* hw_data.get(...) on a value that is no dict raises AttributeError; round() and
\* "* 1.02" on a value that is no number raise TypeError
convert_hw_to_shelly(hw_data) ==
    IF ~BodyTruthy(hw_data) THEN Returned(_get_empty_status)
    ELSE IF hw_data.kind # "object" THEN Raised
    ELSE
      LET total_power == Get(hw_data, "active_power_w", Num(0))
          total_current == Get(hw_data, "active_current_a", Num(0))
          voltage == Get(hw_data, "active_voltage_v", Num(230 * Unit))
          power_a == total_power
          current_a == total_current
      IN  IF ~(IsNum(current_a) /\ IsNum(voltage) /\ IsNum(power_a)) THEN Raised
          ELSE Returned(
            [id |-> 0, source |-> "init",
             a_current |-> Round3(current_a.v),
             a_voltage |-> Round2(voltage.v),
             a_act_power |-> Round2(power_a.v),
             a_aprt_power |-> RoundAprt(power_a.v),
             a_pf |-> 980, a_freq |-> 50 * Unit,
             b_current |-> 0, b_voltage |-> 0, b_act_power |-> 0,
             b_aprt_power |-> 0, b_pf |-> 0, b_freq |-> 0,
             c_current |-> 0, c_voltage |-> 0, c_act_power |-> 0,
             c_aprt_power |-> 0, c_pf |-> 0, c_freq |-> 0,
             n_current |-> 0,
             total_current |-> Round3(current_a.v),
             total_act_power |-> Round2(power_a.v),
             total_aprt_power |-> RoundAprt(power_a.v),
             user_calibrated_phase |-> <<>>])

\* GET /status: the emeter record inside the device information
handle_status_doc(hw_data, t) ==
    LET status == convert_hw_to_shelly(hw_data)
    IN  IF status.raised THEN Raised
        ELSE Returned(
          [wifi_sta |-> [connected |-> TRUE, ssid |-> "EmulatedNetwork",
                         ip |-> "192.168.1.100"],
           cloud |-> [enabled |-> FALSE, connected |-> FALSE],
           mqtt |-> [connected |-> FALSE],
           unixtime |-> t,
           serial |-> 1,
           has_update |-> FALSE,
           mac |-> "AABBCCDDEEFF",
           cfg_changed_cnt |-> 0,
           actions_stats |-> [skipped |-> 0],
           relays |-> <<>>,
           emeters |-> <<status.doc>>,
           fs_size |-> 233681,
           fs_free |-> 150621,
           uptime |-> t,
           ram_total |-> 51032,
           ram_free |-> 38836,
           update |-> [status |-> "idle", has_update |-> FALSE]])

\* (mutant) the device information counts the meters that have a reading
handle_shelly_doc_live ==
    [type |-> "SPEM-003CEBEU", mac |-> "AABBCCDDEEFF", auth |-> FALSE,
     fw |-> "1.0.0-emulator", discoverable |-> TRUE, longid |-> 1,
     num_outputs |-> 0, num_meters |-> IF BodyTruthy(hw_cached) THEN 3 ELSE 0,
     profile |-> "triphase"]

handle_shelly_doc ==
    [type |-> "SPEM-003CEBEU", mac |-> "AABBCCDDEEFF", auth |-> FALSE,
     fw |-> "1.0.0-emulator", discoverable |-> TRUE, longid |-> 1,
     num_outputs |-> 0, num_meters |-> 3, profile |-> "triphase"]

handle_settings_doc ==
    [device |-> [type |-> "SPEM-003CEBEU", mac |-> "AABBCCDDEEFF",
                 hostname |-> "shellyproem3-emulator",
                 num_outputs |-> 0, num_meters |-> 3],
     wifi_ap |-> [enabled |-> FALSE],
     wifi_sta |-> [enabled |-> TRUE, ssid |-> "EmulatedNetwork",
                   ipv4_method |-> "dhcp"],
     mqtt |-> [enable |-> FALSE],
     sntp |-> [server |-> "time.google.com"],
     login |-> [enabled |-> FALSE],
     pin_code |-> "",
     name |-> "Shelly Pro 3EM Emulator",
     fw |-> "1.0.0-emulator",
     discoverable |-> TRUE,
     build_info |-> [build_id |-> "emulator",
                     build_timestamp |-> "2025-01-01T00:00:00Z"],
     cloud |-> [enabled |-> FALSE]]

\* GET /emeter/0
handle_emeter_doc(hw_data) == convert_hw_to_shelly(hw_data)

\* GET /rpc/EM.GetStatus
handle_rpc_status_doc(hw_data) ==
    IF BodyTruthy(hw_data) /\ hw_data.kind # "object" THEN Raised
    ELSE
      LET total_power == IF ~BodyTruthy(hw_data) THEN Num(0)
                         ELSE Get(hw_data, "active_power_w", Num(0))
          voltage == IF ~BodyTruthy(hw_data) THEN Num(0)
                     ELSE Get(hw_data, "active_voltage_v", Num(230 * Unit))
          current == IF ~BodyTruthy(hw_data) THEN Num(0)
                     ELSE Get(hw_data, "active_current_a", Num(0))
      IN  IF ~(IsNum(current) /\ IsNum(voltage) /\ IsNum(total_power)) THEN Raised
          ELSE Returned(
            [id |-> 0,
             a_current |-> Round3(current.v),
             a_voltage |-> Round2(voltage.v),
             a_act_power |-> Round2(total_power.v),
             a_aprt_power |-> RoundAprt(total_power.v),
             a_pf |-> 980, a_freq |-> 50 * Unit,
             b_current |-> 0, b_voltage |-> 0, b_act_power |-> 0,
             b_aprt_power |-> 0, b_pf |-> 0, b_freq |-> 0,
             c_current |-> 0, c_voltage |-> 0, c_act_power |-> 0,
             c_aprt_power |-> 0, c_pf |-> 0, c_freq |-> 0,
             n_current |-> 0,
             total_current |-> Round3(current.v),
             total_act_power |-> Round2(total_power.v),
             total_aprt_power |-> RoundAprt(total_power.v)])

-----------------------------------------------------------------------------
(* src/app/main.py: the state dictionary, the poller's update, the documents *)

InitialState ==
    [wifi_sta |-> [connected |-> TRUE, ssid |-> Str(1), rssi |-> Num(-50 * Unit)],
     em0 |-> [id |-> 0,
              a_voltage |-> Num(230 * Unit),
              b_voltage |-> Num(230 * Unit),
              c_voltage |-> Num(230 * Unit),
              a_act_power |-> Num(0),
              b_act_power |-> Num(0),
              c_act_power |-> Num(0),
              total_act_power |-> Num(0),
              a_current |-> Num(0),
              b_current |-> Num(0),
              c_current |-> Num(0),
              total_current |-> Num(0),
              total_energy |-> Num(0),
              total_returned |-> Num(0),
              total_power_factor |-> Num(1 * Unit)],
     gas0 |-> [id |-> 0, total_m3 |-> Num(0), timestamp |-> Num(0)]]

\* -30 - int((100 - strength) * 0.6)
Rssi(strength) == -30 * Unit - Trunc((100 * Unit - strength) * 6, 10 * Unit) * Unit

\* lines 62-65; "100 - strength" raises TypeError when strength is no number
poller_wifi(st, hw) ==
    LET s1 == [st EXCEPT !.wifi_sta.ssid = Get(hw, "wifi_ssid", Str(1))]
        strength == Get(hw, "wifi_strength", Num(100 * Unit))
    IN  IF ~IsNum(strength) THEN [state |-> s1, raised |-> TRUE]
        ELSE [state |-> [s1 EXCEPT !.wifi_sta.rssi = Num(Rssi(strength.v))],
              raised |-> FALSE]

\* lines 68-79; "total_power / 3" is evaluated only when total_power is true, and
\* "total_power / 230" always
poller_power(st, hw) ==
    LET total_power == Get(hw, "active_power_w", Num(0))
    IN  IF Truthy(total_power) /\ ~IsNum(total_power)
        THEN [state |-> st, raised |-> TRUE]
        ELSE
          LET per_phase == IF Truthy(total_power) THEN Div(total_power.v, 3) ELSE 0
              s3 == [st EXCEPT !.em0.total_act_power = total_power,
                               !.em0.a_act_power = Num(per_phase),
                               !.em0.b_act_power = Num(per_phase),
                               !.em0.c_act_power = Num(per_phase),
                               !.em0.a_current = Num(Div(per_phase, 230)),
                               !.em0.b_current = Num(Div(per_phase, 230)),
                               !.em0.c_current = Num(Div(per_phase, 230))]
          IN  IF ~IsNum(total_power) THEN [state |-> s3, raised |-> TRUE]
              ELSE [state |-> [s3 EXCEPT !.em0.total_current =
                                             Num(Div(total_power.v, 230))],
                    raised |-> FALSE]

\* lines 82-87
poller_totals(st, hw) ==
    [st EXCEPT !.em0.total_energy = Get(hw, "total_power_import_kwh", Num(0)),
               !.em0.total_returned = Get(hw, "total_power_export_kwh", Num(0)),
               !.gas0.total_m3 = Get(hw, "total_gas_m3", Num(0)),
               !.gas0.timestamp = Get(hw, "gas_timestamp", Num(0))]

\* the body of the try block, lines 59-87, on the body of the response: the state
\* it leaves and whether it left by an exception (resp.json() raises on a body
\* it cannot parse, hw.get raises AttributeError on a value that is no dict)
poller_try(st, body) ==
    IF body.kind # "object" THEN [state |-> st, raised |-> TRUE]
    ELSE
      LET w == poller_wifi(st, body)
      IN  IF w.raised THEN w
          ELSE LET q == poller_power(w.state, body)
               IN  IF q.raised THEN q
                   ELSE [state |-> poller_totals(q.state, body), raised |-> FALSE]

\* GET /status
get_status_doc(st) ==
    [wifi_sta |-> st.wifi_sta,
     emeters |-> << [power |-> st.em0.a_act_power,
                     voltage |-> st.em0.a_voltage,
                     current |-> st.em0.a_current,
                     total |-> st.em0.total_energy,
                     returned |-> st.em0.total_returned],
                    [power |-> st.em0.b_act_power,
                     voltage |-> st.em0.b_voltage,
                     current |-> st.em0.b_current],
                    [power |-> st.em0.c_act_power,
                     voltage |-> st.em0.c_voltage,
                     current |-> st.em0.c_current] >>,
     total_power |-> st.em0.total_act_power,
     gas |-> st.gas0]

\* GET /rpc/Shelly.GetStatus
rpc_status_doc(st) ==
    [wifi_sta |-> st.wifi_sta, em0 |-> st.em0, gas0 |-> st.gas0]

-----------------------------------------------------------------------------
(* State after construction (create_app; the import of app/main.py) *)

NoResponse == [path |-> "", code |-> 0, doc |-> [error |-> ""]]

\* what the server sends for a handler's result
Reply(path, result) ==
    [path |-> path, code |-> IF result.raised THEN 500 ELSE 200, doc |-> result.doc]

Init ==
    /\ prog \in {"emulator", "main"}
    /\ poll_pc = "none"
    /\ inflight = 0
    /\ hw_cached = PyNone
    /\ hw_last_fetch = 0
    /\ state = InitialState
    /\ mdns = "none"
    /\ coap_pc = "none"
    /\ now = 0
    /\ response = NoResponse
    /\ first_static = [shelly |-> {}, settings |-> {}]
    /\ hist = [ok |-> FALSE, failed |-> FALSE]
    /\ sleep_s = 0
    /\ cleanup = "none"

Tick == IF now < MaxTime THEN now + 1 ELSE now

PollStored == [ok |-> TRUE, failed |-> FALSE]
PollFailed == [hist EXCEPT !.failed = TRUE]

Serving == poll_pc \notin {"none", "cancelled"}

-----------------------------------------------------------------------------
(* src/shelly_emulator.py: the poll task and HomeWizardClient.fetch_data *)

start_background_tasks ==
    /\ prog = "emulator"
    /\ poll_pc = "none"
    /\ poll_pc' = "created"
    /\ response' = NoResponse
    /\ UNCHANGED <<cleanup, sleep_s, prog, inflight, hw_cached, hw_last_fetch, state, mdns, coap_pc,
                   now, first_static, hist>>

\* (mutant) the loop is left after a failed fetch
poll_homewizard_stops ==
    /\ prog = "emulator"
    /\ poll_pc = "created" \/ (poll_pc = "sleeping" /\ ~hist.failed)
    /\ poll_pc' = "fetching"
    /\ inflight' = inflight + 1
    /\ now' = IF poll_pc = "sleeping" THEN Tick ELSE now
    /\ sleep_s' = 0
    /\ response' = NoResponse
    /\ UNCHANGED <<cleanup, prog, hw_cached, hw_last_fetch, state, mdns, coap_pc,
                   first_static, hist>>

\* (mutant) fetch_data is started as a task of its own and not awaited
poll_homewizard_unawaited ==
    /\ prog = "emulator"
    /\ poll_pc \in {"created", "sleeping", "fetching"}
    /\ poll_pc' = "fetching"
    /\ inflight' = inflight + 1
    /\ now' = IF poll_pc = "sleeping" THEN Tick ELSE now
    /\ sleep_s' = 0
    /\ response' = NoResponse
    /\ UNCHANGED <<cleanup, prog, hw_cached, hw_last_fetch, state, mdns, coap_pc,
                   first_static, hist>>

\* the top of the loop: the task starts, or asyncio.sleep(1) returns, and
\* fetch_data issues session.get
poll_homewizard ==
    /\ prog = "emulator"
    /\ poll_pc \in {"created", "sleeping"}
    /\ poll_pc' = "fetching"
    /\ inflight' = inflight + 1
    /\ now' = IF poll_pc = "sleeping" THEN Tick ELSE now
    /\ sleep_s' = 0
    /\ response' = NoResponse
    /\ UNCHANGED <<cleanup, prog, hw_cached, hw_last_fetch, state, mdns, coap_pc,
                   first_static, hist>>

\* the sleep poll_homewizard goes into after fetch_data: line 248 when it
\* returned, line 251 when it raised an Exception
poll_sleep(raised) == IF raised THEN 5 ELSE 1

\* (mutant) fetch_data lets the exception of session.get through
fetch_data_error_raises ==
    /\ prog = "emulator"
    /\ poll_pc = "fetching"
    /\ poll_pc' = "sleeping"
    /\ inflight' = inflight - 1
    /\ hist' = PollFailed
    /\ sleep_s' = poll_sleep(TRUE)
    /\ response' = NoResponse
    /\ UNCHANGED <<cleanup, prog, hw_cached, hw_last_fetch, state, mdns, coap_pc, now,
                   first_static>>

\* session.get raises (connection error, timeout): line 44, return the cache
fetch_data_error ==
    /\ prog = "emulator"
    /\ poll_pc = "fetching"
    /\ poll_pc' = "sleeping"
    /\ inflight' = inflight - 1
    /\ hist' = PollFailed
    /\ sleep_s' = poll_sleep(FALSE)
    /\ response' = NoResponse
    /\ UNCHANGED <<cleanup, prog, hw_cached, hw_last_fetch, state, mdns, coap_pc, now,
                   first_static>>

\* session.get answers with a status: lines 35 and 41-43
fetch_data_status(status) ==
    /\ prog = "emulator"
    /\ poll_pc = "fetching"
    /\ IF status = 200
       THEN /\ poll_pc' = "reading"
            /\ UNCHANGED <<inflight, hist, sleep_s>>
       ELSE /\ poll_pc' = "sleeping"
            /\ inflight' = inflight - 1
            /\ hist' = PollFailed
            /\ sleep_s' = poll_sleep(FALSE)
    /\ response' = NoResponse
    /\ UNCHANGED <<cleanup, prog, hw_cached, hw_last_fetch, state, mdns, coap_pc, now,
                   first_static>>

\* await resp.json() returns the parsed body or raises: lines 36-40 and 44-46
fetch_data_json(body) ==
    /\ prog = "emulator"
    /\ poll_pc = "reading"
    /\ poll_pc' = "sleeping"
    /\ inflight' = inflight - 1
    /\ IF body.kind = "unparseable"
       THEN /\ hist' = PollFailed
            /\ UNCHANGED <<hw_cached, hw_last_fetch>>
       ELSE /\ hw_cached' = body
            /\ hw_last_fetch' = now
            /\ hist' = PollStored
    /\ sleep_s' = poll_sleep(FALSE)
    /\ response' = NoResponse
    /\ UNCHANGED <<cleanup, prog, state, mdns, coap_pc, now, first_static>>

\* poll_task.cancel(): CancelledError is thrown into the task at the await it is
\* suspended in; it is no Exception, so neither line 44 nor line 249 catches it
\* and the task ends cancelled.  await app['poll_task'] then raises the
\* CancelledError of the task inside the hook, which has no handler for it.
cleanup_background_tasks ==
    /\ prog = "emulator"
    /\ Serving
    /\ poll_pc' = "cancelled"
    /\ inflight' = 0
    /\ sleep_s' = 0
    /\ cleanup' = "raised"
    /\ response' = NoResponse
    /\ UNCHANGED <<prog, hw_cached, hw_last_fetch, state, mdns, coap_pc, now,
                   first_static, hist>>

-----------------------------------------------------------------------------
(* src/shelly_emulator.py: the request handlers *)

get_cached_data == hw_cached

handle_status ==
    /\ prog = "emulator"
    /\ Serving
    /\ response' = Reply("/status", handle_status_doc(get_cached_data, now))
    /\ UNCHANGED <<cleanup, sleep_s, prog, poll_pc, inflight, hw_cached, hw_last_fetch, state, mdns,
                   coap_pc, now, first_static, hist>>

handle_shelly ==
    /\ prog = "emulator"
    /\ Serving
    /\ response' = Reply("/shelly", Returned(handle_shelly_doc))
    /\ first_static' = IF first_static.shelly = {}
                       THEN [first_static EXCEPT !.shelly =
                                {[doc |-> handle_shelly_doc, stored |-> hist.ok]}]
                       ELSE first_static
    /\ UNCHANGED <<cleanup, sleep_s, prog, poll_pc, inflight, hw_cached, hw_last_fetch, state, mdns,
                   coap_pc, now, hist>>

handle_settings ==
    /\ prog = "emulator"
    /\ Serving
    /\ response' = Reply("/settings", Returned(handle_settings_doc))
    /\ first_static' = IF first_static.settings = {}
                       THEN [first_static EXCEPT !.settings =
                                {[doc |-> handle_settings_doc, stored |-> hist.ok]}]
                       ELSE first_static
    /\ UNCHANGED <<cleanup, sleep_s, prog, poll_pc, inflight, hw_cached, hw_last_fetch, state, mdns,
                   coap_pc, now, hist>>

\* (mutant) the handler takes the reading out of the cache
handle_emeter_consumes ==
    /\ prog = "emulator"
    /\ Serving
    /\ response' = Reply("/emeter/0", handle_emeter_doc(get_cached_data))
    /\ hw_cached' = PyNone
    /\ UNCHANGED <<cleanup, sleep_s, prog, poll_pc, inflight, hw_last_fetch, state, mdns,
                   coap_pc, now, first_static, hist>>

handle_emeter ==
    /\ prog = "emulator"
    /\ Serving
    /\ response' = Reply("/emeter/0", handle_emeter_doc(get_cached_data))
    /\ UNCHANGED <<cleanup, sleep_s, prog, poll_pc, inflight, hw_cached, hw_last_fetch, state, mdns,
                   coap_pc, now, first_static, hist>>

handle_rpc_status ==
    /\ prog = "emulator"
    /\ Serving
    /\ response' = Reply("/rpc/EM.GetStatus", handle_rpc_status_doc(get_cached_data))
    /\ UNCHANGED <<cleanup, sleep_s, prog, poll_pc, inflight, hw_cached, hw_last_fetch, state, mdns,
                   coap_pc, now, first_static, hist>>

\* the routes create_app registers
Routes == {"/status", "/shelly", "/settings", "/emeter/0", "/rpc/EM.GetStatus"}

\* a request for a path no route matches: the router answers 404
router_not_found(path) ==
    /\ prog = "emulator"
    /\ Serving
    /\ path \notin Routes
    /\ response' = [path |-> path, code |-> 404, doc |-> [error |-> "404: Not Found"]]
    /\ UNCHANGED <<cleanup, sleep_s, prog, poll_pc, inflight, hw_cached, hw_last_fetch, state, mdns,
                   coap_pc, now, first_static, hist>>

-----------------------------------------------------------------------------
(* src/app/main.py: startup, the poller, the handlers, the announce task *)

POLL_INTERVAL == 2

\* (mutant) a failed Zeroconf registration is not caught: startup_event ends
\* before line 174
startup_event_uncaught ==
    /\ prog = "main"
    /\ poll_pc = "none"
    /\ poll_pc' = "created"
    /\ mdns' \in {"registered", "failed"}
    /\ coap_pc' = IF mdns' = "failed" THEN "none" ELSE "created"
    /\ response' = NoResponse
    /\ UNCHANGED <<cleanup, sleep_s, prog, inflight, hw_cached, hw_last_fetch, state, now,
                   first_static, hist>>

\* create_task(poller()); Zeroconf registration inside try/except;
\* create_task(coap_announce())
startup_event ==
    /\ prog = "main"
    /\ poll_pc = "none"
    /\ poll_pc' = "created"
    /\ mdns' \in {"registered", "failed"}
    /\ coap_pc' = "created"
    /\ response' = NoResponse
    /\ UNCHANGED <<cleanup, sleep_s, prog, inflight, hw_cached, hw_last_fetch, state, now,
                   first_static, hist>>

\* the top of the loop: the task starts, or asyncio.sleep(POLL_INTERVAL) returns,
\* and client.get is issued
poller ==
    /\ prog = "main"
    /\ poll_pc \in {"created", "sleeping"}
    /\ poll_pc' = "fetching"
    /\ inflight' = inflight + 1
    /\ sleep_s' = 0
    /\ response' = NoResponse
    /\ UNCHANGED <<cleanup, prog, hw_cached, hw_last_fetch, state, mdns, coap_pc, now,
                   first_static, hist>>

\* client.get raises (connection error, timeout): line 89
poller_error ==
    /\ prog = "main"
    /\ poll_pc = "fetching"
    /\ poll_pc' = "sleeping"
    /\ inflight' = inflight - 1
    /\ hist' = PollFailed
    /\ sleep_s' = POLL_INTERVAL
    /\ response' = NoResponse
    /\ UNCHANGED <<cleanup, prog, hw_cached, hw_last_fetch, state, mdns, coap_pc, now,
                   first_static>>

\* client.get returns a response: lines 59-90 run without suspension
poller_response(status, body) ==
    /\ prog = "main"
    /\ poll_pc = "fetching"
    /\ poll_pc' = "sleeping"
    /\ inflight' = inflight - 1
    /\ LET r == poller_try(state, body)
       IN  /\ state' = r.state
           /\ hist' = IF r.raised THEN PollFailed ELSE PollStored
    /\ sleep_s' = POLL_INTERVAL
    /\ response' = NoResponse
    /\ UNCHANGED <<cleanup, prog, hw_cached, hw_last_fetch, mdns, coap_pc, now, first_static>>

get_status ==
    /\ prog = "main"
    /\ Serving
    /\ response' = Reply("/status", Returned(get_status_doc(state)))
    /\ UNCHANGED <<cleanup, sleep_s, prog, poll_pc, inflight, hw_cached, hw_last_fetch, state, mdns,
                   coap_pc, now, first_static, hist>>

rpc_status ==
    /\ prog = "main"
    /\ Serving
    /\ response' = Reply("/rpc/Shelly.GetStatus", Returned(rpc_status_doc(state)))
    /\ UNCHANGED <<cleanup, sleep_s, prog, poll_pc, inflight, hw_cached, hw_last_fetch, state, mdns,
                   coap_pc, now, first_static, hist>>

\* aiocoap.Context.create_client_context(), outside any try: a failure ends the task
coap_announce ==
    /\ prog = "main"
    /\ coap_pc = "created"
    /\ coap_pc' \in {"sending", "failed"}
    /\ response' = NoResponse
    /\ UNCHANGED <<cleanup, sleep_s, prog, poll_pc, inflight, hw_cached, hw_last_fetch, state, mdns,
                   now, first_static, hist>>

\* one turn of the loop: send_message, or the exception it raises caught, then sleep
coap_announce_send ==
    /\ prog = "main"
    /\ coap_pc = "sending"
    /\ coap_pc' = "sleeping"
    /\ response' = NoResponse
    /\ UNCHANGED <<cleanup, sleep_s, prog, poll_pc, inflight, hw_cached, hw_last_fetch, state, mdns,
                   now, first_static, hist>>

\* asyncio.sleep(30) returns
coap_announce_wake ==
    /\ prog = "main"
    /\ coap_pc = "sleeping"
    /\ coap_pc' = "sending"
    /\ response' = NoResponse
    /\ UNCHANGED <<cleanup, sleep_s, prog, poll_pc, inflight, hw_cached, hw_last_fetch, state, mdns,
                   now, first_static, hist>>

-----------------------------------------------------------------------------
(* The specifications *)

PollerStep ==
    \/ poll_homewizard
    \/ fetch_data_error
    \/ \E status \in Statuses : fetch_data_status(status)
    \/ \E body \in Bodies("emulator") : fetch_data_json(body)
    \/ poller
    \/ poller_error
    \/ \E status \in Statuses, body \in Bodies("main") : poller_response(status, body)

Next ==
    \/ start_background_tasks
    \/ poll_homewizard
    \/ fetch_data_error
    \/ \E status \in Statuses : fetch_data_status(status)
    \/ \E body \in Bodies("emulator") : fetch_data_json(body)
    \/ cleanup_background_tasks
    \/ handle_status
    \/ handle_shelly
    \/ handle_settings
    \/ handle_emeter
    \/ handle_rpc_status
    \/ \E path \in EmeterPaths : router_not_found(path)
    \/ startup_event
    \/ poller
    \/ poller_error
    \/ \E status \in Statuses, body \in Bodies("main") : poller_response(status, body)
    \/ get_status
    \/ rpc_status
    \/ coap_announce
    \/ coap_announce_send
    \/ coap_announce_wake

Spec == Init /\ [][Next]_vars

\* The life of the poller task alone: startup, the steps of the poll loop and
\* shutdown.  The request handlers and the announce task are left out; they write
\* only response, first_static and coap_pc, which no step of the poller reads.
PollerNext ==
    \/ start_background_tasks
    \/ startup_event
    \/ PollerStep
    \/ cleanup_background_tasks

\* the event loop runs a task that is ready, and every upstream request ends in a
\* response or an error within its timeout
FairSpec == Init /\ [][PollerNext]_vars /\ WF_vars(PollerStep)

-----------------------------------------------------------------------------
(* The properties *)

\* the snapshot: the cache of HomeWizardClient, the state dictionary of main.py
snapshot == <<hw_cached, hw_last_fetch, state>>

\* the measurement values GET /status returns in the current state
StatusReading ==
    IF prog = "emulator" THEN convert_hw_to_shelly(hw_cached)
    ELSE Returned(get_status_doc(state))

\* a poll that ends in a connection error or timeout, a non-2xx status or an
\* unparseable body
FailedFetch ==
    \/ fetch_data_error
    \/ \E status \in Statuses : ~Is2xx(status) /\ fetch_data_status(status)
    \/ fetch_data_json(Unparseable)
    \/ poller_error
    \/ \E status \in Statuses, body \in Bodies("main") :
          /\ ~Is2xx(status) \/ body = Unparseable
          /\ poller_response(status, body)

\* C1: once a fetch has succeeded, a failed fetch (connection error, timeout,
\* non-2xx status, unparseable body) leaves the snapshot and its timestamp
\* unchanged, and GET /status still returns the values of the last successful
\* fetch; by induction the same holds after any number of consecutive failures.
C1_Resilience ==
    [][(hist.ok /\ FailedFetch) =>
          (UNCHANGED snapshot /\ StatusReading' = StatusReading)]_vars

StatusPaths == {"/status", "/emeter/0", "/rpc/EM.GetStatus"}

\* C2: every GET of /status, /emeter/0 and /rpc/EM.GetStatus completes with a
\* document (status 200), whatever the cache holds; no handler raises.
C2_HandlersNeverFail ==
    (prog = "emulator" /\ response.path \in StatusPaths) => response.code = 200

\* the state a poll of this body leaves when it is applied in full (every field the
\* poller writes is overwritten, so the state before does not matter)
Applied(body) == poller_try(InitialState, body)

\* C3: a poll is never partially applied: each poll leaves the snapshot exactly as
\* it was, or holding entirely the values derived from that poll's body.
C3_PollAtomic ==
    [][/\ \A body \in Bodies("emulator") :
            fetch_data_json(body) =>
               \/ UNCHANGED <<hw_cached, hw_last_fetch>>
               \/ hw_cached' = body /\ hw_last_fetch' = now
       /\ \A status \in Statuses, body \in Bodies("main") :
            poller_response(status, body) =>
               \/ state' = state
               \/ ~Applied(body).raised /\ state' = Applied(body).state]_vars

\* C4: a poll whose response has a non-2xx status never modifies the snapshot,
\* whatever its body.
C4_BadStatusIsFailure ==
    [][(\E status \in Statuses :
           /\ ~Is2xx(status)
           /\ \/ fetch_data_status(status)
              \/ \E body \in Bodies("main") : poller_response(status, body))
        => UNCHANGED snapshot]_vars

EmeterNumericFields ==
    {"a_current", "a_voltage", "a_act_power", "a_aprt_power", "a_pf", "a_freq",
     "b_current", "b_voltage", "b_act_power", "b_aprt_power", "b_pf", "b_freq",
     "c_current", "c_voltage", "c_act_power", "c_aprt_power", "c_pf", "c_freq",
     "n_current", "total_current", "total_act_power", "total_aprt_power"}

Em0NumericFields ==
    {"a_voltage", "b_voltage", "c_voltage", "a_act_power", "b_act_power",
     "c_act_power", "total_act_power", "a_current", "b_current", "c_current",
     "total_current", "total_energy", "total_returned", "total_power_factor"}

\* the values of the measurement fields of a response (the device fields of the
\* emulator's /status, such as serial and fs_size, are no readings and left out)
ReadingFields(r) ==
    CASE r.path = "/emeter/0" \/ r.path = "/rpc/EM.GetStatus" ->
           {Num(r.doc[f]) : f \in EmeterNumericFields}
      [] r.path = "/status" /\ prog = "emulator" ->
           {Num(r.doc.emeters[1][f]) : f \in EmeterNumericFields}
      [] r.path = "/status" /\ prog = "main" ->
           {r.doc.wifi_sta.rssi, r.doc.total_power, r.doc.gas.total_m3,
            r.doc.gas.timestamp, r.doc.emeters[1].total, r.doc.emeters[1].returned}
           \cup {r.doc.emeters[i][f] : i \in 1..3, f \in {"power", "voltage", "current"}}
      [] r.path = "/rpc/Shelly.GetStatus" ->
           {r.doc.wifi_sta.rssi, r.doc.gas0.total_m3, r.doc.gas0.timestamp}
           \cup {r.doc.em0[f] : f \in Em0NumericFields}
      [] OTHER -> {}

\* C5: while no fetch has stored a reading, every numeric field of every status
\* response is exactly 0.
C5_ZeroBeforeFirstFetch ==
    (~hist.ok /\ response.code = 200) => \A x \in ReadingFields(response) : x = Num(0)

\* C6: the poll loop is not ended by a fetch failure: unless the process is shut
\* down, every fetch attempt comes to its end and the loop sleeps, and after every
\* sleep another fetch attempt starts.
C6_PollerNeverStops ==
    /\ (poll_pc \in {"fetching", "reading"}) ~> (poll_pc \in {"sleeping", "cancelled"})
    /\ (poll_pc = "sleeping") ~> (poll_pc \in {"fetching", "cancelled"})

\* a new fetch attempt is in flight after an earlier attempt failed
C6_Witness == poll_pc = "fetching" /\ hist.failed

\* C7: at most one upstream fetch is in flight, and a fetch is issued only when
\* none is in flight and the task has just started or its sleep has elapsed.
C7_OneFetchAtATime ==
    /\ [](inflight <= 1)
    /\ [][inflight' > inflight =>
            (inflight = 0 /\ poll_pc \in {"created", "sleeping"})]_vars

\* a second fetch is in flight, after the first one has finished
C7_Witness == inflight = 1 /\ poll_pc = "fetching" /\ (hist.ok \/ hist.failed)

\* C8: every response has all its measurement fields drawn from one single poll,
\* or all from the initial placeholder.
ConsistentStates ==
    {InitialState} \cup {Applied(b).state : b \in {x \in MainObjects : ~Applied(x).raised}}

C8_NoTornResponse ==
    /\ (prog = "main" /\ response.path = "/status") =>
          \E st \in ConsistentStates :
             /\ response.doc.emeters = get_status_doc(st).emeters
             /\ response.doc.total_power = get_status_doc(st).total_power
             /\ response.doc.gas = get_status_doc(st).gas
    /\ (prog = "main" /\ response.path = "/rpc/Shelly.GetStatus") =>
          \E st \in ConsistentStates :
             /\ response.doc.em0 = st.em0
             /\ response.doc.gas0 = st.gas0

\* C9: the snapshot is modified only by the step of the poller that ends a fetch;
\* no request handler, startup step or announce step changes it.
C9_SingleWriter ==
    [][(snapshot' # snapshot) =>
          /\ poll_pc \in {"fetching", "reading"}
          /\ poll_pc' = "sleeping"
          /\ response' = NoResponse
          /\ UNCHANGED <<mdns, coap_pc>>]_vars

\* a request is served while the snapshot holds a reading
C9_Witness == response.path # "" /\ hist.ok

\* C10: every GET of /shelly and of /settings returns the document the first GET
\* of that path returned, whatever was polled in between.
C10_StaticIdempotent ==
    /\ response.path = "/shelly" =>
          \A first \in first_static.shelly : response.doc = first.doc
    /\ response.path = "/settings" =>
          \A first \in first_static.settings : response.doc = first.doc

\* /shelly is served after a reading was stored, its first document having been
\* sent before any was
C10_Witness ==
    /\ response.path = "/shelly"
    /\ hist.ok
    /\ \E first \in first_static.shelly : ~first.stored
    /\ \E first \in first_static.settings : ~first.stored


\* C11: a failure of the announce task, the creation of the sending context
\* included, is recovered inside the task: once started, the announce task is
\* always about to send or asleep until the next interval, it never ends.
C11_AnnounceNeverEnds ==
    (prog = "main" /\ coap_pc # "none") => coap_pc \in {"created", "sending", "sleeping"}

\* the poller task is alive and has a next step to take
PollerRuns ==
    /\ poll_pc \in {"created", "fetching", "sleeping"}
    /\ ENABLED PollerStep

\* C12: when the mDNS registration failed at startup or the announce task
\* failed, the poller still runs, the announce task has been started, and both
\* status routes are served, the response being the one computed from the
\* snapshot alone.
C12_DiscoveryIsolated ==
    (prog = "main" /\ (mdns = "failed" \/ coap_pc = "failed")) =>
        /\ PollerRuns
        /\ coap_pc # "none"
        /\ ENABLED get_status
        /\ ENABLED rpc_status
        /\ response.path = "/status" =>
              response = Reply("/status", Returned(get_status_doc(state)))
        /\ response.path = "/rpc/Shelly.GetStatus" =>
              response = Reply("/rpc/Shelly.GetStatus", Returned(rpc_status_doc(state)))

\* mDNS registration and the announce task have both failed, a poll has stored
\* a reading since and GET /status has been answered
C12_Witness ==
    /\ mdns = "failed"
    /\ coap_pc = "failed"
    /\ hist.ok
    /\ response.path = "/status"
    /\ response.code = 200

\* the rssi the mapping -30 - round((100 - pct) * 0.6), capped at -30, gives
ClaimedRssi(pct) ==
    LET r == -30 * Unit - RoundHalfEven((100 * Unit - pct) * 6, 10 * Unit) * Unit
    IN  IF r > -30 * Unit THEN -30 * Unit ELSE r

\* C13: for every integer wifi_strength a poll reports, the rssi the poll stores
\* is -30 - round((100 - pct) * 0.6), and never greater than -30.
C13_RssiMapping ==
    [][\A status \in Statuses, body \in MainObjects :
          (poller_response(status, body) /\ IsNum(body.f.wifi_strength)) =>
              state'.wifi_sta.rssi = Num(ClaimedRssi(body.f.wifi_strength.v))]_vars

\* power_w / voltage_v, and 0 when voltage_v is 0
DerivedCurrent(power_w, voltage_v) ==
    IF voltage_v = 0 THEN 0 ELSE Div(power_w, voltage_v \div Unit)

\* C14: when the reading served has no upstream current field, the reported
\* current is power_w / voltage_v (voltage_v the upstream voltage or its
\* default), and 0 when voltage_v is 0.
C14_CurrentDerived ==
    LET power == Get(hw_cached, "active_power_w", Num(0))
        voltage == Get(hw_cached, "active_voltage_v", Num(230 * Unit))
    IN  (/\ prog = "emulator"
         /\ response.path \in {"/emeter/0", "/rpc/EM.GetStatus"}
         /\ response.code = 200
         /\ BodyTruthy(hw_cached)
         /\ hw_cached.f.active_current_a = Missing
         /\ IsNum(power) /\ IsNum(voltage))
        => response.doc.a_current = DerivedCurrent(power.v, voltage.v)

\* the phase index n of the path /emeter/n
EmeterIndex(path) ==
    CASE path = "/emeter/0" -> 0
      [] path = "/emeter/1" -> 1
      [] path = "/emeter/2" -> 2

\* C15: GET /emeter/n, n in {0, 1, 2}, is served and answers with entry n of
\* the emeters list GET /status returns on the same snapshot.
C15_EmeterByIndex ==
    (prog = "emulator" /\ response.path \in EmeterPaths) =>
        LET status == handle_status_doc(hw_cached, now)
            n == EmeterIndex(response.path)
        IN  /\ response.code = 200
            /\ ~status.raised
            /\ n + 1 <= Len(status.doc.emeters)
            /\ response.doc = status.doc.emeters[n + 1]

\* C16: in every cache state, each field that both the /rpc/EM.GetStatus
\* response and the /emeter/0 response carry has the same value in both.
C16_RpcMirrorsEmeter ==
    (prog = "emulator" /\ response.path = "/rpc/EM.GetStatus" /\ response.code = 200) =>
        LET emeter == handle_emeter_doc(hw_cached)
        IN  /\ ~emeter.raised
            /\ \A f \in (DOMAIN response.doc) \cap (DOMAIN emeter.doc) :
                  response.doc[f] = emeter.doc[f]

\* C17: after cleanup the poller task is cancelled, no fetch is in flight and
\* none can start, and the cleanup hook has returned normally.
C17_CleanShutdown ==
    (prog = "emulator" /\ poll_pc = "cancelled") =>
        /\ inflight = 0
        /\ ~ENABLED PollerStep
        /\ cleanup = "returned"

\* C18: once the cache holds a reading, no step sets it back to None.
C18_CacheNeverCleared ==
    [][hw_cached # PyNone => hw_cached' # PyNone]_vars

\* C19: whenever the emulator's poller sleeps after a fetch attempt, failed or
\* successful, it is in the 1-second sleep, never in the 5-second one.
C19_FixedDelay ==
    (prog = "emulator" /\ poll_pc = "sleeping") => sleep_s = 1

\* the poller sleeps after a fetch attempt that failed
C19_Witness ==
    /\ prog = "emulator"
    /\ poll_pc = "sleeping"
    /\ hist.failed
    /\ sleep_s = 1

=============================================================================
